---------------------------- MODULE Spec2Model ----------------------------
(***************************************************************************)
(* Washco authentication / session core.                                   *)
(*                                                                         *)
(* The model covers the auth service (auth.service.js), the repository it  *)
(* drives (auth.repository.js) and the HTTP login handler with its route   *)
(* schema (auth.controller.js, auth.routes.js).  The database is the pair  *)
(* (users, refresh_tokens); every service call is one action, translated   *)
(* statement by statement, and leaves its outcome in `last`.               *)
(*                                                                         *)
(* Representation                                                          *)
(*   - an email is a tuple of one-character strings, so that toLowerCase   *)
(*     is computed character by character; <<>> is the empty string;       *)
(*   - a password is an opaque string; an argon2 digest is the tuple       *)
(*     <<"$argon2id", plaintext>>, NoHash (<<>>) is the NULL of the        *)
(*     password_hash column;                                               *)
(*   - NULL is the NULL of the string columns google_id, avatar_url and    *)
(*     tenant_id;                                                          *)
(*   - a refresh token plaintext is a positive number, drawn fresh at each *)
(*     issue (32 random bytes never repeat); 0 is the absent cookie;       *)
(*   - time is counted in ticks, one tick being one refresh lifetime, and  *)
(*     measured from the present: the clock reads 0 at every call, and a   *)
(*     tick that passes moves every stored timestamp one tick towards the  *)
(*     past.  The code compares timestamps with the present only, so       *)
(*     timestamps already in the past are not told apart.                  *)
(* Columns no operation of the auth core reads or constrains (full_name,   *)
(* created_at, updated_at) are left out.                                   *)
(***************************************************************************)
EXTENDS Integers, Sequences, FiniteSets, TLC

VARIABLES
    users,          \* table users: sequence of rows, row i has id i
    refresh_tokens, \* table refresh_tokens: set of rows
    nextToken,      \* the next plaintext generateToken will draw
    googleClientId, \* config.google.clientId
    cookies,        \* refresh-token plaintexts handed to clients: token -> user id
    loggedOut,      \* plaintexts for which a logout(token) call has completed
    createdFor,     \* <<subject id, user id>>: the user record googleSignIn created for a subject
    pending,        \* requests in flight between their reads and their write
    last            \* the last call: [op, arg, res]

vars == <<users, refresh_tokens, nextToken, googleClientId, cookies, loggedOut, createdFor,
          pending, last>>

-----------------------------------------------------------------------------
(* Bounds of the model *)

MaxTokens == 2      \* refresh tokens issued in one behaviour

MaxInFlight == 2    \* requests in flight at once

(* The present: new Date(), Date.now(), NOW() *)
now == 0

(* One refresh lifetime (REFRESH_TOKEN_EXPIRES_IN, '7d'), in ticks *)
RefreshLifetime == 1

-----------------------------------------------------------------------------
(* Values *)

NULL == "NULL"

NoHash == <<>>

NoEmail == <<>>

Undefined == "undefined"

EmailInputs == { <<"a", "@", "x">>, <<"A", "@", "x">>, <<"b", "@", "X">> }

Passwords == { "pw1", "pw2" }

GoogleSubs == { "g1", "g2" }

Pictures == { NULL, "pic" }

(* the phone a request carries: none, or a number *)
Phones == { Undefined, "phone" }

(* What client.verifyIdToken makes of an idToken: it throws, or yields a payload *)
InvalidIdToken == [valid |-> FALSE, sub |-> NULL, email |-> NoEmail, picture |-> NULL]

IdTokens ==
    { InvalidIdToken }
    \cup [valid : {TRUE}, sub : GoogleSubs, email : EmailInputs \cup {NoEmail}, picture : {NULL}]
    \cup [valid : {TRUE}, sub : {"g1"}, email : { <<"a", "@", "x">> }, picture : Pictures]

(* The cookie values a client can send: none (0), an issued token, a forged one *)
ForgedToken == MaxTokens + 1

TokenInputs == 0 .. ForgedToken

-----------------------------------------------------------------------------
(* String.prototype.toLowerCase *)

LowerChar(c) ==
    CASE c = "A" -> "a"
      [] c = "B" -> "b"
      [] c = "X" -> "x"
      [] OTHER -> c

toLowerCase(s) == [i \in DOMAIN s |-> LowerChar(s[i])]

LowerEmails == { toLowerCase(e) : e \in EmailInputs }

(* ids a request may name: every id the table can hold, and one it never holds *)
UserIds == 1 .. (Cardinality(LowerEmails) + 1)

-----------------------------------------------------------------------------
(* Errors: the class thrown and its message (errorHandler.js classes) *)

Err(cls, msg) == [ok |-> FALSE, cls |-> cls, msg |-> msg]

AccountExists == Err("ConflictError", "An account with this email already exists.")

InvalidCredentials == Err("UnauthorizedError", "Invalid email or password.")

NotConfigured == Err("BadRequestError", "Google Sign-In is not configured.")

InvalidAssertion == Err("UnauthorizedError", "Invalid Google token.")

NoEmailInAssertion == Err("BadRequestError", "Google account does not have an email address.")

TokenRequired == Err("UnauthorizedError", "Refresh token required.")

InvalidToken == Err("UnauthorizedError", "Invalid refresh token.")

TokenRevoked == Err("UnauthorizedError", "Refresh token has been revoked.")

TokenExpired == Err("UnauthorizedError", "Refresh token has expired.")

WrongCurrentPassword == Err("UnauthorizedError", "Current password is incorrect.")

UserNotFound == Err("BadRequestError", "User not found.")

(* A TypeError raised by the runtime or by argon2, not by the service *)
TypeError == Err("TypeError", "TypeError")

(* A unique-constraint violation raised by the database (SQLSTATE 23505) *)
UniqueViolation == Err("DatabaseError", "23505")

ValidationError == Err("ValidationError", "ValidationError")

AuditError == Err("Error", "createAuditLog")

-----------------------------------------------------------------------------
(* JavaScript helpers *)

(* !!x for a nullable string *)
Truthy(x) == x \notin {NULL, Undefined, ""}

(* a || b *)
OrElse(a, b) == IF Truthy(a) THEN a ELSE b

(* rows[0] of a query result that holds at least one row *)
FirstRow(rows) == CHOOSE r \in rows : TRUE

-----------------------------------------------------------------------------
(* argon2 *)

(* argon2.hash(password): the digest embeds its parameters and verifies   *)
(* exactly the plaintext it was made from; the salt is left out           *)
argon2Hash(password) == <<"$argon2id", password>>

(* mutant: every password verifies *)
argon2Verify_any(digest, password) == digest /= NoHash

(* argon2.verify(digest, password), called with a digest and a string *)
argon2Verify(digest, password) == digest = argon2Hash(password)

(* argon2.verify throws (a TypeError) on a digest that is no PHC string   *)
(* and on a password that is no string or buffer                          *)
argon2VerifyThrows(digest, password) == digest = NoHash \/ password = Undefined

-----------------------------------------------------------------------------
(* utils/helpers.js *)

(* hashToken(token): a deterministic one-way digest of the plaintext *)
hashToken(token) == <<"sha256", token>>

(* parseDuration(config.jwt.refreshExpiresIn), in ticks *)
parseDuration == RefreshLifetime

-----------------------------------------------------------------------------
(* auth.repository.js: each query as a function of the tables *)

(* mutant: the lookup compares the email as given *)
findByEmail_asGiven(U, email) ==
    { U[i] : i \in { j \in DOMAIN U : U[j].email = email } }

findByEmail(U, email) ==
    { U[i] : i \in { j \in DOMAIN U : U[j].email = toLowerCase(email) } }

(* the SELECT list of findById leaves password_hash out *)
findById(U, id) ==
    { [f \in DOMAIN U[i] \ {"password_hash"} |-> U[i][f]] : i \in DOMAIN U \cap {id} }

findByGoogleId(U, googleId) ==
    { U[i] : i \in { j \in DOMAIN U : U[j].google_id = googleId } }

(* mutant: google_id without its unique constraint *)
ViolatesUnique_emailOnly(U, id, email, googleId, phone) ==
    \E j \in DOMAIN U \ {id} :
        \/ U[j].email = email
        \/ phone /= NULL /\ U[j].phone = phone

(* The unique constraints of table users: email, google_id when not NULL, *)
(* and phone when not NULL (idx_users_phone)                              *)
ViolatesUnique(U, id, email, googleId, phone) ==
    \E j \in DOMAIN U \ {id} :
        \/ U[j].email = email
        \/ googleId /= NULL /\ U[j].google_id = googleId
        \/ phone /= NULL /\ U[j].phone = phone

(* the RETURNING list of create and update leaves password_hash out *)
Returning(row) == [f \in DOMAIN row \ {"password_hash"} |-> row[f]]

(* mutant: the INSERT leaves google_id out *)
create_dropsGoogleId(U, email, passwordHash, phone, role, tenantId, googleId, avatarUrl) ==
    LET row == [ id            |-> Len(U) + 1,
                 email         |-> toLowerCase(email),
                 password_hash |-> passwordHash,
                 phone         |-> OrElse(phone, NULL),
                 role          |-> role,
                 tenant_id     |-> tenantId,
                 is_verified   |-> (role = "super_admin" \/ Truthy(googleId)),
                 google_id     |-> NULL,
                 avatar_url    |-> avatarUrl ]
    IN  IF ViolatesUnique(U, 0, row.email, row.google_id, row.phone)
        THEN [ok |-> FALSE, err |-> UniqueViolation, users |-> U, rows |-> {}]
        ELSE [ok |-> TRUE, err |-> UniqueViolation, users |-> Append(U, row),
              rows |-> {Returning(row)}]

(* INSERT INTO users ... RETURNING: the caller's defaults are the function's *)
create(U, email, passwordHash, phone, role, tenantId, googleId, avatarUrl) ==
    LET row == [ id            |-> Len(U) + 1,
                 email         |-> toLowerCase(email),
                 password_hash |-> passwordHash,
                 phone         |-> OrElse(phone, NULL),
                 role          |-> role,
                 tenant_id     |-> tenantId,
                 is_verified   |-> (role = "super_admin" \/ Truthy(googleId)),
                 google_id     |-> googleId,
                 avatar_url    |-> avatarUrl ]
    IN  IF ViolatesUnique(U, 0, row.email, row.google_id, row.phone)
        THEN [ok |-> FALSE, err |-> UniqueViolation, users |-> U, rows |-> {}]
        ELSE [ok |-> TRUE, err |-> UniqueViolation, users |-> Append(U, row),
              rows |-> {Returning(row)}]

(* data.f !== undefined; isVerified, a boolean, is passed as true or left out *)
Given(data, f) == f \in DOMAIN data /\ ( f = "isVerified" \/ data[f] /= Undefined )

(* UPDATE users SET <the fields data defines> WHERE id = $n RETURNING ... *)
UpdateFields == {"fullName", "phone", "isVerified", "tenantId", "googleId", "avatarUrl"}

(* mutant: the UPDATE also resets password_hash *)
update_resetsPassword(U, id, data) ==
    LET set(row) ==
            [row EXCEPT
                !.password_hash = NoHash,
                !.phone       = IF Given(data, "phone") THEN data.phone ELSE @,
                !.is_verified = IF Given(data, "isVerified") THEN data.isVerified ELSE @,
                !.tenant_id   = IF Given(data, "tenantId") THEN data.tenantId ELSE @,
                !.google_id   = IF Given(data, "googleId") THEN data.googleId ELSE @,
                !.avatar_url  = IF Given(data, "avatarUrl") THEN data.avatarUrl ELSE @]
    IN  IF \A f \in UpdateFields : ~Given(data, f)
        THEN [ok |-> TRUE, err |-> UniqueViolation, users |-> U, rows |-> {}]
        ELSE IF id \notin DOMAIN U
        THEN [ok |-> TRUE, err |-> UniqueViolation, users |-> U, rows |-> {}]
        ELSE IF ViolatesUnique(U, id, U[id].email, set(U[id]).google_id, set(U[id]).phone)
        THEN [ok |-> FALSE, err |-> UniqueViolation, users |-> U, rows |-> {}]
        ELSE [ok |-> TRUE, err |-> UniqueViolation,
              users |-> [U EXCEPT ![id] = set(U[id])], rows |-> {Returning(set(U[id]))}]

update(U, id, data) ==
    LET set(row) ==
            [row EXCEPT
                !.phone       = IF Given(data, "phone") THEN data.phone ELSE @,
                !.is_verified = IF Given(data, "isVerified") THEN data.isVerified ELSE @,
                !.tenant_id   = IF Given(data, "tenantId") THEN data.tenantId ELSE @,
                !.google_id   = IF Given(data, "googleId") THEN data.googleId ELSE @,
                !.avatar_url  = IF Given(data, "avatarUrl") THEN data.avatarUrl ELSE @]
    IN  IF \A f \in UpdateFields : ~Given(data, f)
        THEN [ok |-> TRUE, err |-> UniqueViolation, users |-> U, rows |-> {}]
        ELSE IF id \notin DOMAIN U
        THEN [ok |-> TRUE, err |-> UniqueViolation, users |-> U, rows |-> {}]
        ELSE IF ViolatesUnique(U, id, U[id].email, set(U[id]).google_id, set(U[id]).phone)
        THEN [ok |-> FALSE, err |-> UniqueViolation, users |-> U, rows |-> {}]
        ELSE [ok |-> TRUE, err |-> UniqueViolation,
              users |-> [U EXCEPT ![id] = set(U[id])], rows |-> {Returning(set(U[id]))}]

(* mutant: the record is stored for the first user, whoever signs in *)
createRefreshToken_firstUser(T, userId, tokenHash, expiresAt) ==
    T \cup { [ user_id    |-> 1,
               token_hash |-> tokenHash,
               expires_at |-> expiresAt,
               is_revoked |-> FALSE ] }

(* INSERT INTO refresh_tokens (user_id, token_hash, expires_at); is_revoked *)
(* takes the column's default, FALSE                                        *)
createRefreshToken(T, userId, tokenHash, expiresAt) ==
    T \cup { [ user_id    |-> userId,
               token_hash |-> tokenHash,
               expires_at |-> expiresAt,
               is_revoked |-> FALSE ] }

(* mutant: the join leaves the tenant out *)
findRefreshToken_noTenant(U, T, tokenHash) ==
    { [ user_id     |-> rt.user_id,
        expires_at  |-> rt.expires_at,
        is_revoked  |-> rt.is_revoked,
        email       |-> U[rt.user_id].email,
        role        |-> U[rt.user_id].role,
        tenant_id   |-> NULL,
        is_verified |-> U[rt.user_id].is_verified ]
      : rt \in { r \in T : r.token_hash = tokenHash /\ r.user_id \in DOMAIN U } }

(* refresh_tokens JOIN users ON u.id = rt.user_id WHERE rt.token_hash = $1 *)
findRefreshToken(U, T, tokenHash) ==
    { [ user_id     |-> rt.user_id,
        expires_at  |-> rt.expires_at,
        is_revoked  |-> rt.is_revoked,
        email       |-> U[rt.user_id].email,
        role        |-> U[rt.user_id].role,
        tenant_id   |-> U[rt.user_id].tenant_id,
        is_verified |-> U[rt.user_id].is_verified ]
      : rt \in { r \in T : r.token_hash = tokenHash /\ r.user_id \in DOMAIN U } }

(* mutant: the flag is flipped where it should be set *)
revokeRefreshToken_toggles(T, tokenHash) ==
    { IF rt.token_hash = tokenHash THEN [rt EXCEPT !.is_revoked = ~@] ELSE rt : rt \in T }

revokeRefreshToken(T, tokenHash) ==
    { IF rt.token_hash = tokenHash THEN [rt EXCEPT !.is_revoked = TRUE] ELSE rt : rt \in T }

(* mutant: only tokens still valid are revoked *)
revokeAllUserTokens_unexpired(T, userId) ==
    { IF rt.user_id = userId /\ ~(rt.expires_at < now)
      THEN [rt EXCEPT !.is_revoked = TRUE] ELSE rt : rt \in T }

revokeAllUserTokens(T, userId) ==
    { IF rt.user_id = userId THEN [rt EXCEPT !.is_revoked = TRUE] ELSE rt : rt \in T }

(* mutant: the sweep takes the instant of expiry as expired *)
cleanupExpiredTokens_atExpiry(T, t) ==
    { rt \in T : ~(rt.expires_at <= t \/ rt.is_revoked) }

(* DELETE ... WHERE expires_at < NOW() OR is_revoked = TRUE *)
cleanupExpiredTokens(T, t) ==
    { rt \in T : ~(rt.expires_at < t \/ rt.is_revoked) }

(* mutant: the parameters bound the other way round, so no row matches *)
updatePassword_swapped(U, id, passwordHash) == U

updatePassword(U, id, passwordHash) ==
    IF id \in DOMAIN U THEN [U EXCEPT ![id].password_hash = passwordHash] ELSE U

-----------------------------------------------------------------------------
(* auth.service.js.  A service function is an operator of the current      *)
(* state: it yields the value returned or the error thrown (res) and the   *)
(* tables as the call leaves them.                                         *)

Outcome(res, U, T, n) ==
    [res |-> res, users |-> U, refresh_tokens |-> T, nextToken |-> n]

(* the call throws before it writes anything *)
Throw(err) == Outcome(err, users, refresh_tokens, nextToken)

(* jwt.sign(claims, secret): the signed claims *)
generateAccessToken(user) ==
    [ userId   |-> user.id,
      email    |-> user.email,
      role     |-> user.role,
      tenantId |-> user.tenant_id ]

generateRefreshToken ==
    [ refreshToken     |-> nextToken,
      refreshTokenHash |-> hashToken(nextToken),
      expiresAt        |-> now + parseDuration ]

(* the user view login and googleSignIn return *)
UserView(user) ==
    [ id        |-> user.id,
      email     |-> user.email,
      role      |-> user.role,
      tenantId  |-> user.tenant_id,
      avatarUrl |-> user.avatar_url ]

(* "Generate tokens ... Store refresh token ... return" of login and        *)
(* googleSignIn: expiresAt is what generateRefreshToken computed before    *)
(* the call awaited createRefreshToken                                     *)
IssueTokens(U, user, expiresAt) ==
    LET accessToken == generateAccessToken(user)
        rt == generateRefreshToken
    IN  Outcome([ ok           |-> TRUE,
                  user         |-> UserView(user),
                  accessToken  |-> accessToken,
                  refreshToken |-> rt.refreshToken,
                  expiresAt    |-> expiresAt ],
                U,
                createRefreshToken(refresh_tokens, user.id, rt.refreshTokenHash, expiresAt),
                nextToken + 1)

(* register from "Hash password" on, existingUser being what findByEmail gave *)
registerWith(existingUser, email, password, phone, role) ==
    IF existingUser /= {}
    THEN Throw(AccountExists)
    ELSE LET passwordHash == argon2Hash(password)
             created == create(users, email, passwordHash, phone, role, NULL, NULL, NULL)
         IN  IF ~created.ok
             THEN Throw(created.err)
             ELSE LET user == FirstRow(created.rows)
                  IN  Outcome([ok |-> TRUE,
                               user |-> [id |-> user.id, email |-> user.email,
                                         role |-> user.role]],
                              created.users, refresh_tokens, nextToken)

(* a call of register that no other request's statement interrupts *)
register(email, password, phone, role) ==
    registerWith(findByEmail(users, email), email, password, phone, role)

(* login from "if (!user)" on, found being what findByEmail gave *)
loginWith(found, arg) ==
    IF found = {}
    THEN Throw(InvalidCredentials)
    ELSE LET user == FirstRow(found)
         IN  IF argon2VerifyThrows(user.password_hash, arg.password)
             THEN Throw(TypeError)
             ELSE IF ~argon2Verify(user.password_hash, arg.password)
             THEN Throw(InvalidCredentials)
             ELSE IssueTokens(users, user, generateRefreshToken.expiresAt)

(* login destructures { email, password } from its argument: a key the     *)
(* argument lacks is undefined, and findByEmail(undefined) throws on       *)
(* undefined.toLowerCase()                                                 *)
login(arg) ==
    IF "email" \notin DOMAIN arg
    THEN Throw(TypeError)
    ELSE loginWith(findByEmail(users, arg.email), arg)

(* googleSignIn up to "if (!email)": what it throws before its lookups, if anything *)
googleRefusal(idToken) ==
    IF ~Truthy(googleClientId)
    THEN {NotConfigured}
    ELSE IF ~idToken.valid
    THEN {InvalidAssertion}
    ELSE IF idToken.email = NoEmail
    THEN {NoEmailInAssertion}
    ELSE {}

(* the statement that writes users: update (link) if findByEmail gave a    *)
(* row, create if not                                                      *)
googleWrite(byEmail, idToken) ==
    IF byEmail /= {}
    THEN LET user == FirstRow(byEmail)
         IN  update(users, user.id,
                    [ googleId   |-> idToken.sub,
                      avatarUrl  |-> OrElse(idToken.picture, user.avatar_url),
                      isVerified |-> TRUE ])
    ELSE create(users, idToken.email, NoHash, Undefined, "customer", NULL,
                idToken.sub, OrElse(idToken.picture, NULL))

(* googleSignIn from "if (!user)" on, bySub and byEmail being what the *)
(* two lookups gave                                                    *)
googleSignInWith(bySub, byEmail, idToken) ==
    IF bySub /= {}
    THEN IssueTokens(users, FirstRow(bySub), generateRefreshToken.expiresAt)
    ELSE LET written == googleWrite(byEmail, idToken)
         IN  IF ~written.ok
             THEN Throw(written.err)
             ELSE IssueTokens(written.users, FirstRow(written.rows),
                              generateRefreshToken.expiresAt)

(* a call of googleSignIn that no other request's statement interrupts *)
googleSignIn(idToken) ==
    IF googleRefusal(idToken) /= {}
    THEN Throw(FirstRow(googleRefusal(idToken)))
    ELSE googleSignInWith(findByGoogleId(users, idToken.sub),
                          findByEmail(users, idToken.email), idToken)

(* mutant: the comparison the other way round *)
isExpired_reversed(expires_at) == now < expires_at

(* new Date(tokenData.expires_at) < new Date() *)
isExpired(expires_at) == expires_at < now

(* mutant: the token used is revoked, as under rotation *)
refreshAccessToken_rotating(refreshToken) ==
    IF refreshToken = 0
    THEN Throw(TokenRequired)
    ELSE LET tokenHash == hashToken(refreshToken)
             found == findRefreshToken(users, refresh_tokens, tokenHash)
         IN  IF found = {}
             THEN Throw(InvalidToken)
             ELSE LET tokenData == FirstRow(found)
                  IN  IF tokenData.is_revoked
                      THEN Throw(TokenRevoked)
                      ELSE IF isExpired(tokenData.expires_at)
                      THEN Throw(TokenExpired)
                      ELSE Outcome([ ok          |-> TRUE,
                                     accessToken |-> [ userId   |-> tokenData.user_id,
                                                       email    |-> tokenData.email,
                                                       role     |-> tokenData.role,
                                                       tenantId |-> tokenData.tenant_id ],
                                     user        |-> [ id       |-> tokenData.user_id,
                                                       email    |-> tokenData.email,
                                                       role     |-> tokenData.role,
                                                       tenantId |-> tokenData.tenant_id ] ],
                                   users, revokeRefreshToken(refresh_tokens, tokenHash), nextToken)

(* mutant: a token found expired is revoked before the call fails *)
refreshAccessToken_revokesExpired(refreshToken) ==
    IF refreshToken = 0
    THEN Throw(TokenRequired)
    ELSE LET tokenHash == hashToken(refreshToken)
             found == findRefreshToken(users, refresh_tokens, tokenHash)
         IN  IF found = {}
             THEN Throw(InvalidToken)
             ELSE LET tokenData == FirstRow(found)
                  IN  IF tokenData.is_revoked
                      THEN Throw(TokenRevoked)
                      ELSE IF isExpired(tokenData.expires_at)
                      THEN Outcome(TokenExpired, users,
                                   revokeRefreshToken(refresh_tokens, tokenHash), nextToken)
                      ELSE Outcome([ ok          |-> TRUE,
                                     accessToken |-> [ userId   |-> tokenData.user_id,
                                                       email    |-> tokenData.email,
                                                       role     |-> tokenData.role,
                                                       tenantId |-> tokenData.tenant_id ],
                                     user        |-> [ id       |-> tokenData.user_id,
                                                       email    |-> tokenData.email,
                                                       role     |-> tokenData.role,
                                                       tenantId |-> tokenData.tenant_id ] ],
                                   users, refresh_tokens, nextToken)

refreshAccessToken(refreshToken) ==
    IF refreshToken = 0
    THEN Throw(TokenRequired)
    ELSE LET tokenHash == hashToken(refreshToken)
             found == findRefreshToken(users, refresh_tokens, tokenHash)
         IN  IF found = {}
             THEN Throw(InvalidToken)
             ELSE LET tokenData == FirstRow(found)
                  IN  IF tokenData.is_revoked
                      THEN Throw(TokenRevoked)
                      ELSE IF isExpired(tokenData.expires_at)
                      THEN Throw(TokenExpired)
                      ELSE Outcome([ ok          |-> TRUE,
                                     accessToken |-> [ userId   |-> tokenData.user_id,
                                                       email    |-> tokenData.email,
                                                       role     |-> tokenData.role,
                                                       tenantId |-> tokenData.tenant_id ],
                                     user        |-> [ id       |-> tokenData.user_id,
                                                       email    |-> tokenData.email,
                                                       role     |-> tokenData.role,
                                                       tenantId |-> tokenData.tenant_id ] ],
                                   users, refresh_tokens, nextToken)

(* mutant: a missing token is refused, as refreshAccessToken refuses it *)
logout_requiresToken(refreshToken) ==
    IF refreshToken = 0
    THEN Throw(TokenRequired)
    ELSE Outcome([ok |-> TRUE], users,
                 revokeRefreshToken(refresh_tokens, hashToken(refreshToken)), nextToken)

(* mutant: the plaintext, not its hash, is handed to the repository *)
logout_plaintext(refreshToken) ==
    IF refreshToken = 0
    THEN Outcome([ok |-> TRUE], users, refresh_tokens, nextToken)
    ELSE Outcome([ok |-> TRUE], users,
                 { IF rt.token_hash = <<refreshToken>> THEN [rt EXCEPT !.is_revoked = TRUE] ELSE rt
                   : rt \in refresh_tokens },
                 nextToken)

logout(refreshToken) ==
    IF refreshToken = 0
    THEN Outcome([ok |-> TRUE], users, refresh_tokens, nextToken)
    ELSE Outcome([ok |-> TRUE], users,
                 revokeRefreshToken(refresh_tokens, hashToken(refreshToken)), nextToken)

logoutAll(userId) ==
    Outcome([ok |-> TRUE], users, revokeAllUserTokens(refresh_tokens, userId), nextToken)

(* updateProfile(userId, data): data goes to update as it is *)
updateProfile(userId, data) ==
    LET updated == update(users, userId, data)
    IN  IF ~updated.ok
        THEN Throw(updated.err)
        ELSE Outcome([ok |-> TRUE, user |-> updated.rows], updated.users,
                     refresh_tokens, nextToken)

(* mutant: the sessions of the user are ended with the old password *)
changePasswordWith_revoking(found, userId, currentPassword, newPassword) ==
    IF found = {}
    THEN Throw(UserNotFound)
    ELSE LET user == FirstRow(found)
         IN  IF user.password_hash /= NoHash
                /\ argon2VerifyThrows(user.password_hash, currentPassword)
             THEN Throw(TypeError)
             ELSE IF user.password_hash /= NoHash
                     /\ ~argon2Verify(user.password_hash, currentPassword)
             THEN Throw(WrongCurrentPassword)
             ELSE LET newHash == argon2Hash(newPassword)
                  IN  Outcome([ok |-> TRUE, message |-> "Password changed successfully."],
                              updatePassword(users, userId, newHash),
                              revokeAllUserTokens(refresh_tokens, userId),
                              nextToken)

(* changePassword from "if (!user)" on, found being what findByEmail gave *)
changePasswordWith(found, userId, currentPassword, newPassword) ==
    IF found = {}
    THEN Throw(UserNotFound)
    ELSE LET user == FirstRow(found)
         IN  IF user.password_hash /= NoHash
                /\ argon2VerifyThrows(user.password_hash, currentPassword)
             THEN Throw(TypeError)
             ELSE IF user.password_hash /= NoHash
                     /\ ~argon2Verify(user.password_hash, currentPassword)
             THEN Throw(WrongCurrentPassword)
             ELSE LET newHash == argon2Hash(newPassword)
                  IN  Outcome([ok |-> TRUE, message |-> "Password changed successfully."],
                              updatePassword(users, userId, newHash),
                              refresh_tokens, nextToken)

(* a call of changePassword that no other request's statement interrupts: *)
(* findById(userId) yields null for an unknown id, and null.email throws  *)
changePassword(userId, currentPassword, newPassword) ==
    LET byId == findById(users, userId)
    IN  IF byId = {}
        THEN Throw(TypeError)
        ELSE changePasswordWith(findByEmail(users, FirstRow(byId).email),
                                userId, currentPassword, newPassword)

-----------------------------------------------------------------------------
(* auth.routes.js and auth.controller.js: POST /auth/login *)

(* The request bodies a client may post: the frontend posts                *)
(* { identifier, password }, the route schema asks for { email, password } *)
LoginBodies ==
    [email : EmailInputs, password : Passwords]
    \cup [identifier : EmailInputs, password : {"pw1"}]
    \cup { [email |-> e, identifier |-> e, password |-> "pw1"] : e \in EmailInputs }

(* what validateBody does with a key the schema does not name *)
UnknownKeyPolicies == {"reject", "strip", "keep"}

(* loginSchema: email and password required; validateBody replaces the body *)
(* by the validated value, {} standing for a rejected request               *)
loginSchema(body, policy) ==
    IF ~({"email", "password"} \subseteq DOMAIN body)
    THEN {}
    ELSE IF DOMAIN body \subseteq {"email", "password"}
    THEN {body}
    ELSE CASE policy = "reject" -> {}
           [] policy = "strip"  -> {[f \in {"email", "password"} |-> body[f]]}
           [] OTHER             -> {body}

(* the argument the controller builds: { identifier, password } *)
LoginArgument(body) ==
    IF "identifier" \in DOMAIN body
    THEN [identifier |-> body.identifier, password |-> body.password]
    ELSE [password |-> body.password]

-----------------------------------------------------------------------------
(* auth.controller.js: the handlers that write the audit log.  Each awaits *)
(* the service call and then createAuditLog inside one try block, whose    *)
(* catch hands the error to next().                                        *)

(* what the handler answers once its service call has returned res: the   *)
(* error it caught, or the response                                        *)
AfterAudit(res, audited, auditFails, response) ==
    IF ~res.ok
    THEN res
    ELSE IF audited /\ auditFails
    THEN AuditError
    ELSE response

(* controller register, from the service call's return on *)
registerReply(res, auditFails) ==
    AfterAudit(res, TRUE, auditFails, [ok |-> TRUE, status |-> 201, user |-> res.user])

(* controllers login and googleSignIn, from the service call's return on: *)
(* the refresh token goes into the cookie                                 *)
signInReply(res, auditFails) ==
    AfterAudit(res, TRUE, auditFails,
               [ ok           |-> TRUE,
                 user         |-> res.user,
                 accessToken  |-> res.accessToken,
                 refreshToken |-> res.refreshToken ])

(* controller logout: the audit log is written only if (req.user); 0 is no req.user *)
logoutReply(res, reqUser, auditFails) ==
    AfterAudit(res, reqUser /= 0, auditFails,
               [ok |-> TRUE, message |-> "Logged out successfully."])

(* controller logoutAll, behind authenticate *)
logoutAllReply(res, auditFails) ==
    AfterAudit(res, TRUE, auditFails,
               [ok |-> TRUE, message |-> "Logged out from all devices."])

-----------------------------------------------------------------------------
(* The state machine.  The store runs one statement at a time; a call that *)
(* awaits several statements is one step per statement, other requests     *)
(* running in between, and is in `pending` from its first statement to its *)
(* last.  An action takes the sets its inputs are drawn from, so that a    *)
(* specification explores the calls of one group of clients.               *)

Init ==
    /\ users = <<>>
    /\ refresh_tokens = {}
    /\ nextToken = 1
    /\ googleClientId \in {NULL, "client-id"}
    /\ cookies = <<>>
    /\ loggedOut = {}
    /\ createdFor = {}
    /\ pending = {}
    /\ last = [op |-> "init", arg |-> <<>>, res |-> [ok |-> TRUE]]

(* the client holds one more token: res.cookie('refreshToken', ...) *)
Handed(token, userId) ==
    [t \in DOMAIN cookies \cup {token} |-> IF t = token THEN userId ELSE cookies[t]]

(* a call of one statement ends: the tables are as it left them, a token it *)
(* issued is with the client                                               *)
Apply(op, arg, out) ==
    /\ out.nextToken <= MaxTokens + 1
    /\ users' = out.users
    /\ refresh_tokens' = out.refresh_tokens
    /\ nextToken' = out.nextToken
    /\ cookies' = IF out.nextToken > nextToken
                  THEN Handed(nextToken, out.res.user.id)
                  ELSE cookies
    /\ last' = [op |-> op, arg |-> arg, res |-> out.res]
    /\ UNCHANGED <<googleClientId, pending>>

RequestIds == 1 .. MaxInFlight

(* the id a new request gets: the least one not in flight *)
FreeRequestId ==
    CHOOSE rid \in RequestIds :
        /\ \A r \in pending : r.rid /= rid
        /\ \A other \in RequestIds : (\A r \in pending : r.rid /= other) => rid <= other

(* the server takes a call whenever fewer than MaxInFlight are in flight *)
Room == Cardinality(pending) < MaxInFlight

(* a service call and a handler's call: a handler's audit log may fail *)
Direct == { [http |-> FALSE, auditFails |-> FALSE] }

Handled == [http : {TRUE}, auditFails : BOOLEAN]

(* the request a call is while in flight: what it was called with (call),  *)
(* what it is reported as (name, arg), the statement it awaits next (pc),  *)
(* the rows its last query gave (rows), once it has generated its tokens   *)
(* the expiry it computed for the refresh token (expiresAt), and in a      *)
(* handler what its service call returned (result)                         *)
Request(op, name, how, arg, call, pc, rows) ==
    [ rid |-> FreeRequestId, op |-> op, name |-> name, http |-> how.http,
      auditFails |-> how.auditFails, arg |-> arg, call |-> call, pc |-> pc, rows |-> rows,
      expiresAt |-> IF pc = "createRefreshToken"
                    THEN {generateRefreshToken.expiresAt}
                    ELSE {},
      result |-> {} ]

(* the call awaits its next statement *)
Await(done, request, U) ==
    /\ pending' = (pending \ done) \cup {request}
    /\ users' = U
    /\ last' = [op |-> "await", arg |-> <<>>, res |-> [ok |-> TRUE]]
    /\ UNCHANGED <<refresh_tokens, nextToken, googleClientId, cookies, loggedOut>>

(* what the caller gets: what the service call returned or threw, or the   *)
(* handler's answer to it                                                  *)
Reply(request, res) ==
    IF ~request.http
    THEN res
    ELSE CASE request.op = "register" -> registerReply(res, request.auditFails)
           [] request.op = "logout" -> logoutReply(res, request.call.reqUser,
                                                   request.auditFails)
           [] request.op = "logoutAll" -> logoutAllReply(res, request.auditFails)
           [] OTHER -> signInReply(res, request.auditFails)

(* a handler writes the audit log once its service call has returned;     *)
(* logout only if (req.user)                                               *)
Audited(request) ==
    /\ request.http
    /\ request.op = "logout" => request.call.reqUser /= 0

(* the service call ends, the tables being as it left them.  A direct call *)
(* returns to its caller, who holds the token it issued.  A handler whose  *)
(* service call threw answers through next(error); one whose service call  *)
(* returned awaits createAuditLog before it answers, if it writes one.     *)
Return(done, request, out) ==
    /\ out.nextToken <= MaxTokens + 1
    /\ users' = out.users
    /\ refresh_tokens' = out.refresh_tokens
    /\ nextToken' = out.nextToken
    /\ IF out.res.ok /\ Audited(request)
       THEN /\ pending' = (pending \ done)
                             \cup {[request EXCEPT !.pc = "createAuditLog",
                                                   !.result = {out.res}]}
            /\ cookies' = cookies
            /\ last' = [op |-> "await", arg |-> <<>>, res |-> [ok |-> TRUE]]
       ELSE /\ pending' = pending \ done
            /\ cookies' = IF out.nextToken > nextToken
                          THEN Handed(nextToken, out.res.user.id)
                          ELSE cookies
            /\ last' = [op |-> request.name, arg |-> request.arg,
                        res |-> Reply(request, out.res)]
    /\ UNCHANGED googleClientId

Complete(done, request, out) ==
    /\ Return(done, request, out)
    /\ UNCHANGED loggedOut

(* a handler past its service call: createAuditLog resolves or rejects;    *)
(* the handler sets the cookie and writes the response, or its catch hands *)
(* the error to next()                                                     *)
HandlerAnswer ==
    \E r \in pending :
        /\ r.pc = "createAuditLog"
        /\ LET result == FirstRow(r.result)
               reply == Reply(r, result)
           IN  /\ cookies' = IF reply.ok /\ r.op \in {"login", "googleSignIn"}
                             THEN Handed(result.refreshToken, result.user.id)
                             ELSE cookies
               /\ last' = [op |-> r.name, arg |-> r.arg, res |-> reply]
        /\ pending' = pending \ {r}
        /\ UNCHANGED <<users, refresh_tokens, nextToken, googleClientId, loggedOut,
                       createdFor>>

(* register: findByEmail, then throw or go on to "Hash password" *)
RegisterFrom(how, name, arg, email, password, phone) ==
    LET existingUser == findByEmail(users, email)
        request == Request("register", name, how, arg,
                           [email |-> email, password |-> password, phone |-> phone],
                           "create", existingUser)
    IN  /\ Room
        /\ IF existingUser /= {}
           THEN Complete({}, request,
                         registerWith(existingUser, email, password, phone, "customer"))
           ELSE Await({}, request, users)
        /\ UNCHANGED createdFor

Register(emails, passwords, phones) ==
    \E email \in emails, password \in passwords, phone \in phones :
        RegisterFrom(FirstRow(Direct), "register",
                     [email |-> email, password |-> password], email, password, phone)

(* controller register: role is 'customer' unless the body names an allowed role *)
HttpRegister(emails, passwords, phones) ==
    \E email \in emails, password \in passwords, phone \in phones, how \in Handled :
        RegisterFrom(how, "POST /auth/register",
                     [email |-> email, password |-> password, auditFails |-> how.auditFails],
                     email, password, phone)

(* register from "Hash password" on: argon2.hash, create, return *)
RegisterInsert ==
    \E r \in pending :
        /\ r.op = "register"
        /\ r.pc = "create"
        /\ Complete({r}, r,
                    registerWith(r.rows, r.call.email, r.call.password, r.call.phone,
                                 "customer"))
        /\ UNCHANGED createdFor

(* login: findByEmail, then throw or go on to verify the password *)
LoginFrom(how, name, arg, call) ==
    LET found == IF "email" \in DOMAIN call THEN findByEmail(users, call.email) ELSE {}
        request == Request("login", name, how, arg, call, "verify", found)
    IN  /\ Room
        /\ IF "email" \notin DOMAIN call
           THEN Complete({}, request, Throw(TypeError))
           ELSE IF found = {}
           THEN Complete({}, request, loginWith(found, call))
           ELSE Await({}, request, users)
        /\ UNCHANGED createdFor

(* login: argon2.verify has answered for the row the call read; throw, or  *)
(* generate the tokens and go on to store the refresh token                *)
LoginVerify ==
    \E r \in pending :
        /\ r.op = "login"
        /\ r.pc = "verify"
        /\ IF ~loginWith(r.rows, r.call).res.ok
           THEN Complete({r}, r, loginWith(r.rows, r.call))
           ELSE Await({r}, [r EXCEPT !.pc = "createRefreshToken",
                                     !.expiresAt = {generateRefreshToken.expiresAt}],
                      users)
        /\ UNCHANGED createdFor

Login(emails, passwords) ==
    \E email \in emails, password \in passwords :
        LoginFrom(FirstRow(Direct), "login", [email |-> email, password |-> password],
                  [email |-> email, password |-> password])

(* POST /auth/login: validateBody(loginSchema), then the controller calls  *)
(* the service with { identifier, password }                               *)
HttpLogin(bodies) ==
    \E body \in bodies, policy \in UnknownKeyPolicies, how \in Handled :
        LET validated == loginSchema(body, policy)
        IN  IF validated = {}
            THEN /\ Room
                 /\ Complete({}, Request("login", "POST /auth/login", how, body, body,
                                         "verify", {}),
                             Throw(ValidationError))
                 /\ UNCHANGED createdFor
            ELSE LoginFrom(how, "POST /auth/login", body,
                           LoginArgument(FirstRow(validated)))

(* login: createRefreshToken, return *)
LoginStore ==
    \E r \in pending :
        /\ r.op = "login"
        /\ r.pc = "createRefreshToken"
        /\ Complete({r}, r, IssueTokens(users, FirstRow(r.rows), FirstRow(r.expiresAt)))
        /\ UNCHANGED createdFor

(* googleSignIn: the checks of configuration and assertion, findByGoogleId *)
GoogleFrom(how, name, arg, idToken) ==
    LET bySub == findByGoogleId(users, idToken.sub)
        request(pc) == Request("googleSignIn", name, how, arg, idToken, pc, bySub)
    IN  /\ Room
        /\ IF googleRefusal(idToken) /= {}
           THEN Complete({}, request("none"), Throw(FirstRow(googleRefusal(idToken))))
           ELSE IF bySub /= {}
           THEN Await({}, request("createRefreshToken"), users)
           ELSE Await({}, request("findByEmail"), users)
        /\ UNCHANGED createdFor

GoogleSignIn(idTokens) ==
    \E idToken \in idTokens :
        GoogleFrom(FirstRow(Direct), "googleSignIn", idToken, idToken)

HttpGoogleSignIn(idTokens) ==
    \E idToken \in idTokens, how \in Handled :
        GoogleFrom(how, "POST /auth/google",
                   [idToken |-> idToken, auditFails |-> how.auditFails], idToken)

(* googleSignIn: findByEmail *)
GoogleFindByEmail ==
    \E r \in pending :
        /\ r.op = "googleSignIn"
        /\ r.pc = "findByEmail"
        /\ Await({r}, [r EXCEPT !.pc = "write", !.rows = findByEmail(users, r.call.email)],
                 users)
        /\ UNCHANGED createdFor

(* googleSignIn: update (link) or create *)
GoogleWrite ==
    \E r \in pending :
        /\ r.op = "googleSignIn"
        /\ r.pc = "write"
        /\ LET written == googleWrite(r.rows, r.call)
           IN  IF ~written.ok
               THEN Complete({r}, r, Throw(written.err))
               ELSE Await({r}, [r EXCEPT !.pc = "createRefreshToken", !.rows = written.rows,
                                         !.expiresAt = {generateRefreshToken.expiresAt}],
                          written.users)
        /\ createdFor' = IF Len(users') > Len(users)
                         THEN createdFor \cup {<<r.call.sub, Len(users')>>}
                         ELSE createdFor

(* googleSignIn: createRefreshToken, return *)
GoogleStore ==
    \E r \in pending :
        /\ r.op = "googleSignIn"
        /\ r.pc = "createRefreshToken"
        /\ Complete({r}, r, IssueTokens(users, FirstRow(r.rows), FirstRow(r.expiresAt)))
        /\ UNCHANGED createdFor

(* changePassword: findById, whose null result is dereferenced *)
ChangePassword(userIds, passwords, newPasswords) ==
    \E userId \in userIds, currentPassword \in passwords \cup {Undefined},
       newPassword \in newPasswords :
        LET byId == findById(users, userId)
            call == [userId |-> userId, currentPassword |-> currentPassword,
                     newPassword |-> newPassword]
            request == Request("changePassword", "changePassword", FirstRow(Direct),
                               call, call, "findByEmail", byId)
        IN  /\ Room
            /\ IF byId = {}
               THEN Complete({}, request, Throw(TypeError))
               ELSE Await({}, request, users)
            /\ UNCHANGED createdFor

(* changePassword: findByEmail; throw, go on to verify the current        *)
(* password if (user.password_hash), or go on to "const newHash"           *)
ChangePasswordFindByEmail ==
    \E r \in pending :
        /\ r.op = "changePassword"
        /\ r.pc = "findByEmail"
        /\ LET found == findByEmail(users, FirstRow(r.rows).email)
           IN  IF found = {}
               THEN Complete({r}, r,
                             changePasswordWith(found, r.call.userId,
                                                r.call.currentPassword, r.call.newPassword))
               ELSE Await({r}, [r EXCEPT !.pc = IF FirstRow(found).password_hash = NoHash
                                                THEN "updatePassword"
                                                ELSE "verify",
                                         !.rows = found],
                          users)
        /\ UNCHANGED createdFor

(* changePassword: argon2.verify has answered for the row the call read;  *)
(* throw, or go on to "const newHash"                                      *)
ChangePasswordVerify ==
    \E r \in pending :
        /\ r.op = "changePassword"
        /\ r.pc = "verify"
        /\ LET out == changePasswordWith(r.rows, r.call.userId, r.call.currentPassword,
                                         r.call.newPassword)
           IN  IF ~out.res.ok
               THEN Complete({r}, r, out)
               ELSE Await({r}, [r EXCEPT !.pc = "updatePassword"], users)
        /\ UNCHANGED createdFor

(* changePassword from "const newHash" on: argon2.hash, updatePassword, return *)
ChangePasswordUpdate ==
    \E r \in pending :
        /\ r.op = "changePassword"
        /\ r.pc = "updatePassword"
        /\ Complete({r}, r,
                    changePasswordWith(r.rows, r.call.userId, r.call.currentPassword,
                                       r.call.newPassword))
        /\ UNCHANGED createdFor

Refresh ==
    \E refreshToken \in TokenInputs :
        /\ Apply("refresh", [token |-> refreshToken], refreshAccessToken(refreshToken))
        /\ UNCHANGED <<loggedOut, createdFor>>

Logout ==
    \E refreshToken \in TokenInputs :
        /\ Apply("logout", [token |-> refreshToken], logout(refreshToken))
        /\ loggedOut' = IF refreshToken \in DOMAIN cookies
                        THEN loggedOut \cup {refreshToken}
                        ELSE loggedOut
        /\ UNCHANGED createdFor

LogoutAll ==
    \E userId \in UserIds :
        /\ Apply("logoutAll", [userId |-> userId], logoutAll(userId))
        /\ UNCHANGED <<loggedOut, createdFor>>

(* POST /auth/logout: the service call's one statement, then the audit log *)
HttpLogout ==
    \E refreshToken \in TokenInputs, reqUser \in {0} \cup DOMAIN users, how \in Handled :
        /\ Room
        /\ Return({}, Request("logout", "POST /auth/logout", how,
                              [token |-> refreshToken, reqUser |-> reqUser,
                               auditFails |-> how.auditFails],
                              [refreshToken |-> refreshToken, reqUser |-> reqUser],
                              "revokeRefreshToken", {}),
                  logout(refreshToken))
        /\ loggedOut' = IF refreshToken \in DOMAIN cookies
                        THEN loggedOut \cup {refreshToken}
                        ELSE loggedOut
        /\ UNCHANGED createdFor

(* POST /auth/logout-all: the service call's one statement, then the audit log *)
HttpLogoutAll ==
    \E reqUser \in DOMAIN users, how \in Handled :
        /\ Room
        /\ Complete({}, Request("logoutAll", "POST /auth/logout-all", how,
                                [reqUser |-> reqUser, auditFails |-> how.auditFails],
                                [reqUser |-> reqUser], "revokeAllUserTokens", {}),
                    logoutAll(reqUser))
        /\ UNCHANGED createdFor

(* what the controller hands to updateProfile: { fullName, phone } of the  *)
(* body, a key left out being undefined, and { avatarUrl } after an upload *)
ProfileData ==
    { <<>>, [fullName |-> "name"], [phone |-> "phone"], [avatarUrl |-> "pic"] }

UpdateProfile ==
    \E userId \in DOMAIN users, data \in ProfileData :
        /\ Apply("updateProfile", [userId |-> userId, data |-> data],
                 updateProfile(userId, data))
        /\ UNCHANGED <<loggedOut, createdFor>>

(* the tenants a user can be attached to *)
Tenants == {"t1", "t2"}

(* authRepository.update(id, { tenantId }): a user is attached to a tenant *)
UpdateTenant ==
    \E userId \in DOMAIN users, tenantId \in Tenants :
        LET updated == update(users, userId, [tenantId |-> tenantId])
        IN  /\ Apply("updateTenant", [userId |-> userId, tenantId |-> tenantId],
                     IF ~updated.ok
                     THEN Throw(updated.err)
                     ELSE Outcome([ok |-> TRUE, user |-> updated.rows], updated.users,
                                  refresh_tokens, nextToken))
            /\ UNCHANGED <<loggedOut, createdFor>>

(* the maintenance sweep *)
Cleanup ==
    /\ refresh_tokens' = cleanupExpiredTokens(refresh_tokens, now)
    /\ last' = [op |-> "cleanup", arg |-> <<>>, res |-> [ok |-> TRUE]]
    /\ UNCHANGED <<users, nextToken, googleClientId, cookies, loggedOut, createdFor, pending>>

(* one tick passes: every expiry, stored or computed by a call in flight, *)
(* is one tick nearer                                                    *)
Later(expires_at) == IF expires_at < now THEN expires_at ELSE expires_at - 1

Tick ==
    /\ refresh_tokens' = { [rt EXCEPT !.expires_at = Later(@)] : rt \in refresh_tokens }
    /\ pending' = { [r EXCEPT !.expiresAt = { Later(e) : e \in @ }] : r \in pending }
    /\ last' = [op |-> "tick", arg |-> <<>>, res |-> [ok |-> TRUE]]
    /\ UNCHANGED <<users, nextToken, googleClientId, cookies, loggedOut, createdFor>>

-----------------------------------------------------------------------------------------------------------------------------------------------------
(* The specifications.  In each the server takes a call whenever fewer     *)
(* than MaxInFlight are in flight, so that the statements of different     *)
(* calls interleave; they differ in the clients they follow.               *)

(* a client that registers without a phone number *)
NoPhone == { Undefined }

-----------------------------------------------------------------------------
(* Spec: accounts.  One person, who writes the email in either letter case *)
(* and knows two passwords, registers and signs in with a password or with *)
(* either of two Google accounts, through the service and through          *)
(* POST /auth/login; Google Sign-In is configured or not.                  *)
(* The handler's call of the service ends at its first statement (the      *)
(* argument it builds has no email key), so no handler awaits the audit    *)
(* log here.                                                               *)

AccountEmails == { <<"a", "@", "x">>, <<"A", "@", "x">> }

AccountBodies ==
    { body \in LoginBodies :
        /\ body.password = "pw1"
        /\ \A f \in DOMAIN body \ {"password"} : body[f] \in AccountEmails }

AccountIdTokens ==
    { idToken \in IdTokens :
        /\ idToken.email \in AccountEmails \cup {NoEmail}
        /\ idToken.picture = NULL }

Next ==
    \/ Register(AccountEmails, Passwords, NoPhone)
    \/ RegisterInsert
    \/ Login(AccountEmails, Passwords)
    \/ LoginVerify
    \/ LoginStore
    \/ HttpLogin(AccountBodies)
    \/ GoogleSignIn(AccountIdTokens)
    \/ GoogleFindByEmail
    \/ GoogleWrite
    \/ GoogleStore

Spec == Init /\ [][Next]_vars

-----------------------------------------------------------------------------
(* SpecSessions: sessions.  One client registers, signs in, refreshes and  *)
(* signs out, on one device and on all, while time passes and the sweep    *)
(* deletes.                                                                *)

SessionEmails == { <<"a", "@", "x">>, <<"b", "@", "X">> }

SessionPasswords == { "pw1" }

SessionIdTokens == { [valid |-> TRUE, sub |-> "g1", email |-> <<"A", "@", "x">>, picture |-> NULL] }

OneEmail == { <<"b", "@", "X">> }

InitSessions ==
    /\ Init
    /\ googleClientId = "client-id"

NextSessions ==
    \/ Register(OneEmail, SessionPasswords, NoPhone)
    \/ RegisterInsert
    \/ Login(OneEmail, SessionPasswords)
    \/ LoginVerify
    \/ LoginStore
    \/ Refresh
    \/ Logout
    \/ LogoutAll
    \/ Cleanup
    \/ Tick

SpecSessions == InitSessions /\ [][NextSessions]_vars

-----------------------------------------------------------------------------
(* SpecLogoutAll: signing out everywhere.  Two clients register and sign   *)
(* in, refresh and sign out on all devices, while time passes and the      *)
(* sweep deletes.                                                          *)

NextLogoutAll ==
    \/ Register(SessionEmails, SessionPasswords, NoPhone)
    \/ RegisterInsert
    \/ Login(SessionEmails, SessionPasswords)
    \/ LoginVerify
    \/ LoginStore
    \/ Refresh
    \/ LogoutAll
    \/ Cleanup
    \/ Tick

SpecLogoutAll == InitSessions /\ [][NextLogoutAll]_vars

-----------------------------------------------------------------------------
(* SpecHttp: the HTTP handlers.  One client registers, signs in with a     *)
(* password and with Google and signs out through the routes, and the      *)
(* audit log may fail at every write.                                      *)

HttpLoginBodies == [email : OneEmail, password : SessionPasswords]

HttpIdTokens == { [valid |-> TRUE, sub |-> "g2", email |-> <<"b", "@", "X">>, picture |-> "pic"] }

NextHttp ==
    \/ HttpRegister(OneEmail, SessionPasswords, Phones)
    \/ RegisterInsert
    \/ HttpLogin(HttpLoginBodies)
    \/ HttpGoogleSignIn(HttpIdTokens)
    \/ GoogleFindByEmail
    \/ GoogleWrite
    \/ GoogleStore
    \/ HttpLogout
    \/ HttpLogoutAll
    \/ HandlerAnswer

SpecHttp == InitSessions /\ [][NextHttp]_vars

-----------------------------------------------------------------------------
(* SpecRace: concurrent sign-ups.  Clients register and sign in with       *)
(* Google for one email in both letter cases and for two subject ids.      *)

RaceEmails == { <<"a", "@", "x">>, <<"A", "@", "x">> }

RaceIdTokens ==
    { [valid |-> TRUE, sub |-> "g1", email |-> <<"a", "@", "x">>, picture |-> NULL],
      [valid |-> TRUE, sub |-> "g2", email |-> <<"A", "@", "x">>, picture |-> NULL],
      [valid |-> TRUE, sub |-> "g1", email |-> <<"b", "@", "X">>, picture |-> NULL] }

NextRace ==
    \/ Register(RaceEmails, SessionPasswords, NoPhone)
    \/ RegisterInsert
    \/ GoogleSignIn(RaceIdTokens)
    \/ GoogleFindByEmail
    \/ GoogleWrite
    \/ GoogleStore

SpecRace == InitSessions /\ [][NextRace]_vars

-----------------------------------------------------------------------------
(* SpecProfiles: user records.  Two clients register, with the same phone  *)
(* number or none, one of them also signs in with Google, and they edit    *)
(* their profiles; the first user changes password.                        *)

NextProfiles ==
    \/ Register(SessionEmails, SessionPasswords, Phones)
    \/ RegisterInsert
    \/ GoogleSignIn(HttpIdTokens)
    \/ GoogleFindByEmail
    \/ GoogleWrite
    \/ GoogleStore
    \/ UpdateProfile
    \/ ChangePassword(1 .. 1, SessionPasswords, SessionPasswords)
    \/ ChangePasswordFindByEmail
    \/ ChangePasswordVerify
    \/ ChangePasswordUpdate

SpecProfiles == InitSessions /\ [][NextProfiles]_vars

-----------------------------------------------------------------------------
(* SpecTenants: tenant scoping.  Two clients sign in, one with a password  *)
(* and one with Google, are attached to tenants while they hold refresh    *)
(* tokens, and refresh.                                                    *)

NextTenants ==
    \/ Register(OneEmail, SessionPasswords, NoPhone)
    \/ RegisterInsert
    \/ Login(OneEmail, SessionPasswords)
    \/ LoginVerify
    \/ LoginStore
    \/ GoogleSignIn(SessionIdTokens)
    \/ GoogleFindByEmail
    \/ GoogleWrite
    \/ GoogleStore
    \/ UpdateTenant
    \/ Refresh

SpecTenants == InitSessions /\ [][NextTenants]_vars

-----------------------------------------------------------------------------
(* SpecAvatars: avatars.  One client registers, uploads an avatar or not,  *)
(* and signs in with Google, whose assertion carries a picture or none.    *)

AvatarIdTokens ==
    { [valid |-> TRUE, sub |-> "g2", email |-> <<"b", "@", "X">>, picture |-> NULL],
      [valid |-> TRUE, sub |-> "g2", email |-> <<"b", "@", "X">>, picture |-> "gpic"] }

NextAvatars ==
    \/ Register(OneEmail, SessionPasswords, NoPhone)
    \/ RegisterInsert
    \/ UpdateProfile
    \/ GoogleSignIn(AvatarIdTokens)
    \/ GoogleFindByEmail
    \/ GoogleWrite
    \/ GoogleStore

SpecAvatars == InitSessions /\ [][NextAvatars]_vars

-----------------------------------------------------------------------------
(* SpecFailures: refused calls.  One client registers and signs in, with a *)
(* password and with Google; calls come with wrong passwords, with         *)
(* assertions that are invalid or lack an email, and with tokens that are  *)
(* forged, revoked or expired.                                             *)

FailureIdTokens ==
    { InvalidIdToken,
      [valid |-> TRUE, sub |-> "g1", email |-> NoEmail, picture |-> NULL],
      [valid |-> TRUE, sub |-> "g1", email |-> <<"b", "@", "X">>, picture |-> NULL] }

NextFailures ==
    \/ Register(OneEmail, SessionPasswords, NoPhone)
    \/ RegisterInsert
    \/ Login(OneEmail, Passwords)
    \/ LoginVerify
    \/ LoginStore
    \/ GoogleSignIn(FailureIdTokens)
    \/ GoogleFindByEmail
    \/ GoogleWrite
    \/ GoogleStore
    \/ Refresh
    \/ Logout
    \/ ChangePassword(1 .. 1, Passwords, SessionPasswords)
    \/ ChangePasswordFindByEmail
    \/ ChangePasswordVerify
    \/ ChangePasswordUpdate
    \/ Tick

SpecFailures == InitSessions /\ [][NextFailures]_vars

-----------------------------------------------------------------------------
(* SpecBinding: whose token it is.  One client registers and signs in with *)
(* a password and with Google, which links the account; another signs in   *)
(* with Google only; they refresh and sign out.                            *)

BindingEmails == { <<"a", "@", "x">> }

BindingIdTokens ==
    { [valid |-> TRUE, sub |-> "g1", email |-> <<"A", "@", "x">>, picture |-> NULL],
      [valid |-> TRUE, sub |-> "g2", email |-> <<"b", "@", "X">>, picture |-> "pic"] }

NextBinding ==
    \/ Register(BindingEmails, SessionPasswords, NoPhone)
    \/ RegisterInsert
    \/ Login(BindingEmails, SessionPasswords)
    \/ LoginVerify
    \/ LoginStore
    \/ GoogleSignIn(BindingIdTokens)
    \/ GoogleFindByEmail
    \/ GoogleWrite
    \/ GoogleStore
    \/ Refresh
    \/ Logout

SpecBinding == InitSessions /\ [][NextBinding]_vars

-----------------------------------------------------------------------------
(* SpecIssue: issuing tokens.  Two clients, one who registers and one who  *)
(* signs in with Google, sign in while time passes.                        *)

NextIssue ==
    \/ Register(OneEmail, SessionPasswords, NoPhone)
    \/ RegisterInsert
    \/ Login(SessionEmails, SessionPasswords)
    \/ LoginVerify
    \/ LoginStore
    \/ GoogleSignIn(SessionIdTokens)
    \/ GoogleFindByEmail
    \/ GoogleWrite
    \/ GoogleStore
    \/ Tick

SpecIssue == InitSessions /\ [][NextIssue]_vars

-----------------------------------------------------------------------------
(* SpecPasswords: passwords.  Two clients, one who registers and one who   *)
(* signs in with Google, sign in with either of two passwords and change   *)
(* from one to the other.                                                  *)

NextPasswords ==
    \/ Register(OneEmail, Passwords, NoPhone)
    \/ RegisterInsert
    \/ Login(OneEmail, Passwords)
    \/ LoginVerify
    \/ LoginStore
    \/ GoogleSignIn(SessionIdTokens)
    \/ GoogleFindByEmail
    \/ GoogleWrite
    \/ GoogleStore
    \/ ChangePassword(1 .. 2, Passwords, Passwords)
    \/ ChangePasswordFindByEmail
    \/ ChangePasswordVerify
    \/ ChangePasswordUpdate

SpecPasswords == InitSessions /\ [][NextPasswords]_vars

-----------------------------------------------------------------------------
(* Vocabulary of the properties, stated without the code's own functions *)

UpperCase == {"A", "B", "X"}

CasePairs == { {"a", "A"}, {"b", "B"}, {"x", "X"} }

IsLowerCase(s) == \A i \in DOMAIN s : s[i] \notin UpperCase

SameUpToCase(s, t) ==
    /\ Len(s) = Len(t)
    /\ \A i \in DOMAIN s : s[i] = t[i] \/ {s[i], t[i]} \in CasePairs

(* the rows of refresh_tokens that store the plaintext token *)
RecordsOf(token) == { rt \in refresh_tokens : rt.token_hash = <<"sha256", token>> }

(* the identifier a login request carries *)
IdentifierOf(body) == IF "email" \in DOMAIN body THEN body.email ELSE body.identifier

(* the calls in flight that ran their statement pc in this step *)
Ran(op, pc) == { r \in pending \ pending' : r.op = op /\ r.pc = pc }

(* the calls that await their next statement after this step *)
WentOn == pending' \ pending

(* the step ran a call from its first statement to its end: the state     *)
(* before the step is the state the call was made in                      *)
RanWhole == pending' = pending

(* the user ids that hold an email, compared without regard to letter case *)
HoldersOf(email) == { i \in DOMAIN users : SameUpToCase(users[i].email, email) }

-----------------------------------------------------------------------------
(* C1: for every registered (email, password), a login through the public  *)
(* entry point (POST /auth/login -> controller login -> authService.login) *)
(* with the same identifier and password succeeds, stores one              *)
(* refresh-token record for that user and returns a user view whose email  *)
(* is the lowercase registered email.                                      *)
C1_RegisterThenHttpLogin ==
    last.op = "POST /auth/login" =>
        \A i \in DOMAIN users :
            ( /\ SameUpToCase(users[i].email, IdentifierOf(last.arg))
              /\ users[i].password_hash = <<"$argon2id", last.arg.password>> )
            => /\ last.res.ok
               /\ last.res.user.email = users[i].email
               /\ IsLowerCase(last.res.user.email)
               /\ Cardinality({ rt \in RecordsOf(last.res.refreshToken) : rt.user_id = i }) = 1

-----------------------------------------------------------------------------
(* C2: a register called once a user holds an email equal to its email up *)
(* to letter case fails with AccountExists (ConflictError) at its lookup,  *)
(* goes on to no insert and adds no user record; every stored email is in  *)
(* lowercase.                                                              *)
C2_DuplicateRegisterRejected ==
    [][ /\ \A i \in DOMAIN users' : IsLowerCase(users'[i].email)
        /\ \A r \in WentOn : r.op = "register" => HoldersOf(r.call.email) = {}
        /\ ( /\ last'.op = "register"
             /\ RanWhole
             /\ HoldersOf(last'.arg.email) /= {} )
           => /\ last'.res = AccountExists
              /\ users' = users ]_vars

(* a register call was rejected for an email that differs in case from the stored one *)
C2_Witness ==
    /\ last.op = "register"
    /\ last.res = AccountExists
    /\ \E i \in DOMAIN users :
          /\ users[i].email /= last.arg.email
          /\ SameUpToCase(users[i].email, last.arg.email)

-----------------------------------------------------------------------------
(* C3: login with an identifier that resolves to no user and login with a  *)
(* known identifier and a password the hash it read does not verify both   *)
(* fail with the same error, InvalidCredentials (UnauthorizedError), the   *)
(* first at its lookup and the second where it verifies, and neither goes  *)
(* on to store a refresh-token record.                                     *)
C3_LoginFailuresAlike ==
    [][ /\ ( /\ last'.op = "login"
             /\ RanWhole
             /\ HoldersOf(last'.arg.email) = {} )
           => /\ last'.res = InvalidCredentials
              /\ refresh_tokens' = refresh_tokens
        /\ \A r \in Ran("login", "verify") :
              FirstRow(r.rows).password_hash /= <<"$argon2id", r.call.password>>
              => /\ last'.op = "login"
                 /\ last'.res = InvalidCredentials
                 /\ refresh_tokens' = refresh_tokens
                 /\ WentOn = {}
        /\ \A r \in WentOn :
              ( r.op = "login" /\ r.pc = "createRefreshToken" )
              => FirstRow(r.rows).password_hash = <<"$argon2id", r.call.password>> ]_vars

-----------------------------------------------------------------------------
(* C4: once logout(token) has completed, a refresh(token) never succeeds,  *)
(* whatever ran in between: it fails with TokenRevoked while the token's   *)
(* record is stored and with InvalidToken once the sweep has deleted it.   *)
C4_RefreshAfterLogoutFails ==
    ( last.op = "refresh" /\ last.arg.token \in loggedOut )
    => IF RecordsOf(last.arg.token) /= {}
       THEN last.res = TokenRevoked
       ELSE last.res = InvalidToken

(* C4 as stated: after logout(token) every refresh(token) fails with TokenRevoked *)
C4_RefreshAfterLogoutRevoked ==
    ( last.op = "refresh" /\ last.arg.token \in loggedOut )
    => last.res = TokenRevoked

(* a refresh of a logged-out token was refused as revoked after another sign-in *)
C4_Witness ==
    /\ last.op = "refresh"
    /\ last.arg.token \in loggedOut
    /\ last.res = TokenRevoked
    /\ \E t \in DOMAIN cookies : t > last.arg.token

-----------------------------------------------------------------------------
(* C5: when logoutAll(u) has completed, a refresh of any token issued to u *)
(* before it fails, tokens past their expiry included: with TokenRevoked   *)
(* while the token's record is stored, with InvalidToken once the sweep    *)
(* has deleted it.  The records of other users are unchanged, and a token  *)
(* of another user that refreshed before still refreshes.                  *)
C5_LogoutAllRevokesOwnTokens ==
    [][ last'.op = "logoutAll" =>
          LET u == last'.arg.userId
          IN  /\ \A t \in DOMAIN cookies :
                    cookies[t] = u =>
                        (refreshAccessToken(t).res)' =
                            IF RecordsOf(t) /= {} THEN TokenRevoked ELSE InvalidToken
              /\ \A rt \in refresh_tokens : rt.user_id /= u => rt \in refresh_tokens'
              /\ \A rt \in refresh_tokens' : rt.user_id /= u => rt \in refresh_tokens
              /\ \A t \in DOMAIN cookies :
                    ( cookies[t] /= u /\ refreshAccessToken(t).res.ok )
                    => (refreshAccessToken(t).res.ok)' ]_vars

(* C5 as stated: every token issued to u before logoutAll(u) fails with TokenRevoked *)
C5_LogoutAllRevokesIssued ==
    [][ last'.op = "logoutAll" =>
          \A t \in DOMAIN cookies :
              cookies[t] = last'.arg.userId
              => (refreshAccessToken(t).res)' = TokenRevoked ]_vars

(* logoutAll(u) ran while u held a token past its expiry and another user a valid one *)
C5_Witness ==
    /\ last.op = "logoutAll"
    /\ \E t \in DOMAIN cookies :
          /\ cookies[t] = last.arg.userId
          /\ \E rt \in RecordsOf(t) : rt.expires_at < now /\ rt.is_revoked
    /\ \E t \in DOMAIN cookies :
          /\ cookies[t] /= last.arg.userId
          /\ refreshAccessToken(t).res.ok

-----------------------------------------------------------------------------
(* C6: a refresh of a token whose record is not revoked and whose expiry   *)
(* lies strictly before the present fails with TokenExpired and returns no *)
(* access token.                                                           *)
C6_ExpiredTokenRefused ==
    last.op = "refresh" =>
        \A rt \in RecordsOf(last.arg.token) :
            ( ~rt.is_revoked /\ rt.expires_at < now )
            => /\ last.res = TokenExpired
               /\ "accessToken" \notin DOMAIN last.res

(* a refresh was refused as expired *)
C6_Witness ==
    /\ last.op = "refresh"
    /\ last.res = TokenExpired
    /\ \E rt \in RecordsOf(last.arg.token) : ~rt.is_revoked /\ rt.expires_at < now

-----------------------------------------------------------------------------
(* C7: right after a successful login or googleSignIn the returned refresh *)
(* token is stored under its hash in one record, which belongs to the user *)
(* the call authenticated (the user its lookups resolved to and whose view *)
(* it returns), is not revoked and expires strictly in the future, and a   *)
(* refresh of it succeeds for that user.                                   *)
C7_IssuedTokenRefreshes ==
    [][ ( last'.op \in {"login", "googleSignIn"} /\ last'.res.ok )
        => \A t \in TokenInputs, u \in UserIds :
              ( t = last'.res.refreshToken /\ u = last'.res.user.id )
              => /\ pending \ pending' /= {}
                 /\ \A r \in pending \ pending' : FirstRow(r.rows).id = u
                 /\ Cardinality({ rt \in refresh_tokens' : rt.token_hash = <<"sha256", t>> }) = 1
                 /\ \A rt \in refresh_tokens' :
                       rt.token_hash = <<"sha256", t>>
                       => /\ rt.user_id = u
                          /\ ~rt.is_revoked
                          /\ rt.expires_at > now
                 /\ u \in DOMAIN users'
                 /\ users'[u].email = last'.res.user.email
                 /\ last'.op = "login" => SameUpToCase(users'[u].email, last'.arg.email)
                 /\ (refreshAccessToken(t).res.ok)'
                 /\ (refreshAccessToken(t).res.user.id)' = u ]_vars

-----------------------------------------------------------------------------
(* C8: a googleSignIn whose subject id and email match no user, at its     *)
(* lookups and still at its write, creates one user with that subject id,  *)
(* role customer, no password hash and is_verified true, and returns it;   *)
(* from then on every googleSignIn with that subject id returns the same   *)
(* user id, creates no user and leaves the record as it is, whatever email *)
(* the assertion carries.                                                  *)
C8_SubjectKeepsItsUser ==
    [][ /\ \A r \in Ran("googleSignIn", "write") :
              ( /\ r.rows = {}
                /\ HoldersOf(r.call.email) = {}
                /\ \A i \in DOMAIN users : users[i].google_id /= r.call.sub )
              => /\ Len(users') = Len(users) + 1
                 /\ \A i \in DOMAIN users : users'[i] = users[i]
                 /\ users'[Len(users')].google_id = r.call.sub
                 /\ users'[Len(users')].role = "customer"
                 /\ users'[Len(users')].password_hash = NoHash
                 /\ users'[Len(users')].is_verified
                 /\ \E q \in WentOn :
                       /\ q.rid = r.rid
                       /\ q.pc = "createRefreshToken"
                       /\ FirstRow(q.rows).id = Len(users')
        /\ \A r \in Ran("googleSignIn", "createRefreshToken") :
              /\ last'.op = "googleSignIn"
              /\ last'.res.ok
              /\ last'.res.user.id = FirstRow(r.rows).id
              /\ users' = users
        /\ \A p \in createdFor' :
              \A idToken \in IdTokens :
                  ( idToken.valid /\ idToken.sub = p[1] /\ idToken.email /= NoEmail )
                  => /\ (googleSignIn(idToken).res.ok)'
                     /\ (googleSignIn(idToken).res.user.id)' = p[2]
                     /\ (googleSignIn(idToken).users)' = users' ]_vars

-----------------------------------------------------------------------------
(* C9: a googleSignIn with a subject id no user holds and the email, up to *)
(* letter case, of a user with a password hash links the two when it       *)
(* writes: that record gets the subject id and is_verified true, no user   *)
(* record is added, no other record changes, the password hash stays, and  *)
(* a login with the email and the password the hash was made from succeeds *)
(* afterwards; the call goes on to return that user.                       *)
C9_LinkKeepsPassword ==
    [][ /\ \A r \in Ran("googleSignIn", "write") :
              \A i \in HoldersOf(r.call.email) :
                  ( /\ r.rows /= {}
                    /\ users[i].password_hash /= NoHash
                    /\ \A j \in DOMAIN users : users[j].google_id /= r.call.sub )
                  => /\ Len(users') = Len(users)
                     /\ users'[i].google_id = r.call.sub
                     /\ users'[i].is_verified
                     /\ users'[i].password_hash = users[i].password_hash
                     /\ \A j \in DOMAIN users : j /= i => users'[j] = users[j]
                     /\ \A pw \in Passwords :
                           users[i].password_hash = <<"$argon2id", pw>>
                           => (login([email |-> users[i].email, password |-> pw]).res.ok)'
                     /\ \E q \in WentOn :
                           /\ q.rid = r.rid
                           /\ q.pc = "createRefreshToken"
                           /\ FirstRow(q.rows).id = i
        /\ \A r \in Ran("googleSignIn", "createRefreshToken") :
              /\ last'.op = "googleSignIn"
              /\ last'.res.ok
              /\ last'.res.user.id = FirstRow(r.rows).id
              /\ users' = users
        /\ \A r \in WentOn :
              ( r.op = "googleSignIn" /\ r.pc = "write" )
              => ( r.rows /= {} <=> HoldersOf(r.call.email) /= {} ) ]_vars

(* the sign-in just made is the first of a user who has a password: it linked the account *)
C9_Witness ==
    /\ last.op = "googleSignIn"
    /\ last.res.ok
    /\ users[last.res.user.id].password_hash /= NoHash
    /\ users[last.res.user.id].google_id = last.arg.sub
    /\ users[last.res.user.id].email /= last.arg.email
    /\ Cardinality({ t \in DOMAIN cookies : cookies[t] = last.res.user.id }) = 1

-----------------------------------------------------------------------------
(* C10: changePassword for a user without a password hash succeeds for any *)
(* currentPassword, none included: it is not refused where the current     *)
(* password is verified, and it leaves the user with a hash that verifies  *)
(* newPassword.                                                            *)
C10_FederatedSetsPassword ==
    [][ /\ \A r \in Ran("changePassword", "findByEmail") :
              users[r.call.userId].password_hash = NoHash
              => \E q \in WentOn : q.rid = r.rid /\ q.pc = "updatePassword"
        /\ \A r \in Ran("changePassword", "updatePassword") :
              FirstRow(r.rows).password_hash = NoHash
              => /\ last'.op = "changePassword"
                 /\ last'.arg = r.call
                 /\ last'.res.ok
                 /\ users'[r.call.userId].password_hash = <<"$argon2id", r.call.newPassword>>
                 /\ \A u \in DOMAIN users, pw \in Passwords :
                       ( u = r.call.userId /\ pw = r.call.newPassword )
                       => (login([email |-> users[u].email, password |-> pw]).res.ok)' ]_vars

(* a changePassword without a current password has succeeded *)
C10_Witness ==
    /\ last.op = "changePassword"
    /\ last.res.ok
    /\ last.arg.currentPassword = "undefined"
    /\ users[last.arg.userId].google_id /= "NULL"

-----------------------------------------------------------------------------
(* C11: changePassword for a user with a password hash, called with a      *)
(* currentPassword (a string or none) that the hash it read does not       *)
(* verify, fails where it verifies, with the error kind of                 *)
(* InvalidCredentials (UnauthorizedError), and leaves the stored hash as   *)
(* it was.                                                                 *)
C11_WrongCurrentPasswordRefused ==
    [][ /\ \A r \in Ran("changePassword", "findByEmail") :
              users[r.call.userId].password_hash /= NoHash
              => \E q \in WentOn : q.rid = r.rid /\ q.pc = "verify"
        /\ \A r \in Ran("changePassword", "verify") :
              ( /\ FirstRow(r.rows).password_hash /= NoHash
                /\ \A pw \in Passwords :
                      pw = r.call.currentPassword
                      => FirstRow(r.rows).password_hash /= <<"$argon2id", pw>> )
              => /\ last'.op = "changePassword"
                 /\ ~last'.res.ok
                 /\ last'.res.cls = InvalidCredentials.cls
                 /\ users'[r.call.userId].password_hash
                       = users[r.call.userId].password_hash ]_vars

-----------------------------------------------------------------------------
(* C12: a refresh succeeds exactly when the token's record is stored, not  *)
(* revoked and not past its expiry, and a successful refresh is no         *)
(* rotation: it leaves every refresh-token record and every user record as *)
(* it was, so that the same token refreshes again right after.             *)
C12_RefreshDoesNotRotate ==
    [][ last'.op = "refresh" =>
          /\ last'.res.ok <=>
                \E rt \in RecordsOf(last'.arg.token) :
                    ~rt.is_revoked /\ ~(rt.expires_at < now)
          /\ last'.res.ok =>
                /\ refresh_tokens' = refresh_tokens
                /\ users' = users
                /\ \A t \in TokenInputs :
                      t = last'.arg.token => (refreshAccessToken(t).res.ok)' ]_vars

(* a token refreshed after time had passed since it was issued *)
C12_Witness ==
    /\ last.op = "refresh"
    /\ last.res.ok
    /\ \E rt \in RecordsOf(last.arg.token) : rt.expires_at < now + RefreshLifetime

-----------------------------------------------------------------------------
(* C13: revoked and expired are terminal.  No step takes the revoked flag  *)
(* of a stored record from true to false, and a token that has been issued *)
(* and whose refresh fails (its record revoked, expired or swept) does not *)
(* refresh after any step either, so no sequence of operations makes a     *)
(* refresh of it succeed again.  A refresh reads the two tables only, so   *)
(* the steps that leave both as they were need no second look.             *)
C13_RevokedExpiredTerminal ==
    [][ \/ UNCHANGED <<users, refresh_tokens>>
        \/ /\ \A rt \in refresh_tokens :
                  \A nrt \in refresh_tokens' :
                      ( nrt.token_hash = rt.token_hash /\ rt.is_revoked ) => nrt.is_revoked
           /\ \A t \in DOMAIN cookies :
                  ~refreshAccessToken(t).res.ok => ~(refreshAccessToken(t).res.ok)' ]_vars

(* a refresh was refused for a record that is both revoked and past its expiry *)
C13_Witness ==
    /\ last.op = "refresh"
    /\ last.res = TokenRevoked
    /\ \E rt \in RecordsOf(last.arg.token) : rt.is_revoked /\ rt.expires_at < now

-----------------------------------------------------------------------------
(* C14: logout never fails and is idempotent.  Without a token, with a     *)
(* token no record stores and with a token whose record is revoked it      *)
(* changes nothing; on an active record it sets that record's revoked flag *)
(* and nothing else; no user record changes; a second logout of the same   *)
(* token leaves the store as the first left it.                            *)
C14_LogoutIdempotent ==
    [][ last'.op = "logout" =>
          LET hit == { rt \in RecordsOf(last'.arg.token) : ~rt.is_revoked }
          IN  /\ last'.res.ok
              /\ users' = users
              /\ refresh_tokens' =
                    (refresh_tokens \ hit) \cup { [rt EXCEPT !.is_revoked = TRUE] : rt \in hit }
              /\ hit = {} => refresh_tokens' = refresh_tokens
              /\ \A t \in TokenInputs :
                    t = last'.arg.token
                    => /\ (logout(t).res.ok)'
                       /\ (logout(t).refresh_tokens)' = refresh_tokens' ]_vars

(* a logout has revoked one record while another token stays active *)
C14_Witness ==
    /\ last.op = "logout"
    /\ \E rt \in RecordsOf(last.arg.token) : rt.is_revoked /\ ~(rt.expires_at < now)
    /\ \E rt \in refresh_tokens \ RecordsOf(last.arg.token) : ~rt.is_revoked

-----------------------------------------------------------------------------
(* C15: a failure of the audit log never aborts an auth operation.  When   *)
(* the service call of a handler has returned (register stored a user,     *)
(* login or googleSignIn stored a refresh token, logout and logoutAll      *)
(* always return) and the handler has written or tried to write the audit  *)
(* log, it answers with the success response, with the refresh token for   *)
(* login and googleSignIn.                                                 *)
C15_AuditFailureIgnored ==
    [][ /\ \A r \in pending \ pending' :
              r.pc = "createAuditLog"
              => /\ last'.op = r.name
                 /\ last'.res.ok
                 /\ r.op \in {"login", "googleSignIn"}
                    => "refreshToken" \in DOMAIN last'.res
        /\ last'.op \in {"POST /auth/logout", "POST /auth/logout-all"} => last'.res.ok ]_vars

-----------------------------------------------------------------------------
(* C16: when a register request has passed its find-by-email check and,    *)
(* by the time it inserts, another request has stored a user with that     *)
(* email, the insert is rejected by the unique constraint: there is one    *)
(* user record with the email, and the request fails with AccountExists.   *)
C16_RegisterRaceLoserConflict ==
    [][ \A r \in Ran("register", "create") :
          ( r.rows = {} /\ HoldersOf(r.call.email) /= {} )
          => /\ users' = users
             /\ Cardinality({ i \in DOMAIN users' :
                                 SameUpToCase(users'[i].email, r.call.email) }) = 1
             /\ last'.op = "register"
             /\ last'.res = AccountExists ]_vars

-----------------------------------------------------------------------------
(* C17: the sweep, wherever it runs between the other calls, only deletes: *)
(* every record it deletes is revoked or past its expiry at that moment,   *)
(* every other record stays as it was, and a token that refreshed before   *)
(* the sweep refreshes after it.                                           *)
C17_SweepDeletesOnlyTerminal ==
    [][ last'.op = "cleanup" =>
          /\ refresh_tokens' \subseteq refresh_tokens
          /\ \A rt \in refresh_tokens \ refresh_tokens' :
                rt.is_revoked \/ rt.expires_at < now
          /\ users' = users
          /\ \A t \in TokenInputs :
                refreshAccessToken(t).res.ok => (refreshAccessToken(t).res.ok)' ]_vars

(* the sweep has deleted the record of one token while another token still refreshes *)
C17_Witness ==
    /\ last.op = "cleanup"
    /\ \E t \in DOMAIN cookies : RecordsOf(t) = {}
    /\ \E t \in DOMAIN cookies : refreshAccessToken(t).res.ok

-----------------------------------------------------------------------------
(* C18: whatever sequence of register, googleSignIn (creating or linking), *)
(* updateProfile and changePassword has run, every user record has a       *)
(* password hash or an external-identity id.                               *)
C18_HashOrSubject ==
    \A i \in DOMAIN users :
        users[i].password_hash /= NoHash \/ users[i].google_id /= NULL

(* a profile update of a user who has no password hash has gone through *)
C18_Witness ==
    /\ last.op = "updateProfile"
    /\ last.res.ok
    /\ last.res.user /= {}
    /\ users[last.arg.userId].password_hash = NoHash
    /\ users[last.arg.userId].google_id /= NULL
    /\ \E i \in DOMAIN users : users[i].password_hash /= NoHash

-----------------------------------------------------------------------------
(* C19: however concurrent register and googleSignIn requests interleave,  *)
(* two first sign-ins for one subject id or one email included, no two     *)
(* user records have the same email, compared without regard to letter    *)
(* case, and no two have the same non-null external-subject-id.            *)
C19_UsersUnique ==
    \A i \in DOMAIN users :
        \A j \in DOMAIN users :
            i /= j =>
                /\ ~SameUpToCase(users[i].email, users[j].email)
                /\ users[i].google_id /= NULL => users[i].google_id /= users[j].google_id

(* a googleSignIn that had found no user for its subject id lost the race: *)
(* its write was rejected while another request's record holds the id     *)
C19_Witness ==
    /\ last.op = "googleSignIn"
    /\ ~last.res.ok
    /\ last.res.cls = "DatabaseError"
    /\ \E i \in DOMAIN users : users[i].google_id = last.arg.sub
    /\ Len(users) > 1

-----------------------------------------------------------------------------
(* C20: without a configured client id googleSignIn fails with             *)
(* NotConfigured, an error kind other than the one an assertion without    *)
(* email gets (BadRequest), and stores no user and no refresh token.       *)
C20_NotConfiguredDistinct ==
    [][ ( last'.op = "googleSignIn" /\ ~Truthy(googleClientId) )
        => /\ last'.res = NotConfigured
           /\ last'.res.cls /= NoEmailInAssertion.cls
           /\ users' = users
           /\ refresh_tokens' = refresh_tokens ]_vars

-----------------------------------------------------------------------------
(* C21: a login for a user who has no password hash (an account that       *)
(* googleSignIn created) fails where it verifies, with InvalidCredentials, *)
(* the error of a wrong password and of an unknown identifier, whatever    *)
(* password is supplied, and goes on to store no refresh token.            *)
C21_FederatedLoginRefused ==
    [][ /\ \A r \in Ran("login", "verify") :
              FirstRow(r.rows).password_hash = NoHash
              => /\ last'.op = "login"
                 /\ last'.res = InvalidCredentials
                 /\ refresh_tokens' = refresh_tokens
                 /\ WentOn = {}
        /\ \A r \in WentOn :
              ( r.op = "login" /\ r.pc = "createRefreshToken" )
              => FirstRow(r.rows).password_hash /= NoHash ]_vars

-----------------------------------------------------------------------------
(* C22: a record counts as expired from the instant of its expiry on.  A   *)
(* refresh of a token whose record is not revoked succeeds only while the  *)
(* present lies strictly before the expiry, and fails with TokenExpired    *)
(* when the present is the expiry or later.                                *)
C22_ExpiredAtExpiry ==
    last.op = "refresh" =>
        \A rt \in RecordsOf(last.arg.token) :
            ~rt.is_revoked =>
                /\ last.res.ok <=> now < rt.expires_at
                /\ now >= rt.expires_at => last.res = TokenExpired

-----------------------------------------------------------------------------
(* C23: a successful refresh returns an access token and a user view that  *)
(* carry the role and the tenant of the token's owner as the user record   *)
(* holds them at that moment; when a user is attached to another tenant    *)
(* after the sign-in, a refresh of the token issued before carries the new *)
(* tenant.                                                                 *)
C23_RefreshCarriesCurrentTenant ==
    [][ /\ ( last'.op = "refresh" /\ last'.res.ok )
           => \A rt \in refresh_tokens' :
                 rt.token_hash = <<"sha256", last'.arg.token>>
                 => /\ last'.res.accessToken.userId = rt.user_id
                    /\ last'.res.accessToken.role = users'[rt.user_id].role
                    /\ last'.res.accessToken.tenantId = users'[rt.user_id].tenant_id
                    /\ last'.res.user.role = users'[rt.user_id].role
                    /\ last'.res.user.tenantId = users'[rt.user_id].tenant_id
        /\ last'.op = "updateTenant"
           => \A t \in DOMAIN cookies :
                 ( cookies[t] = last'.arg.userId /\ refreshAccessToken(t).res.ok )
                 => /\ (refreshAccessToken(t).res.ok)'
                    /\ (refreshAccessToken(t).res.accessToken.tenantId)' = last'.arg.tenantId
                    /\ (refreshAccessToken(t).res.user.tenantId)' = last'.arg.tenantId ]_vars

(* the token issued when googleSignIn created the first user, who had no   *)
(* tenant then, has refreshed with the tenant the user was attached to     *)
(* since                                                                   *)
C23_Witness ==
    /\ last.op = "refresh"
    /\ last.res.ok
    /\ last.res.accessToken.tenantId \in Tenants
    /\ last.arg.token = 1
    /\ cookies[1] = 1
    /\ \E p \in createdFor : p[2] = 1

-----------------------------------------------------------------------------
(* C24: when googleSignIn links an assertion to the user found by email,   *)
(* whose record is as the lookup found it, the user's avatar becomes the   *)
(* assertion's picture only if the assertion has a picture and the user    *)
(* has no avatar; an avatar the user has stays.                            *)
C24_LinkKeepsAvatar ==
    [][ \A r \in Ran("googleSignIn", "write") :
          \A i \in HoldersOf(r.call.email) :
              ( /\ r.rows /= {}
                /\ FirstRow(r.rows).avatar_url = users[i].avatar_url
                /\ \E q \in WentOn : q.rid = r.rid )
              => users'[i].avatar_url =
                    IF users[i].avatar_url = NULL /\ r.call.picture /= NULL
                    THEN r.call.picture
                    ELSE users[i].avatar_url ]_vars

-----------------------------------------------------------------------------
(* C25: the subject id is authoritative once linked.  No write of a       *)
(* googleSignIn, one with another subject id and the same email included,  *)
(* changes the subject id a user record holds, and a googleSignIn with     *)
(* that subject id resolves to the same user afterwards.                   *)
C25_SubjectAuthoritative ==
    [][ Ran("googleSignIn", "write") /= {} =>
          \A i \in DOMAIN users :
              users[i].google_id /= NULL
              => /\ users'[i].google_id = users[i].google_id
                 /\ \A idToken \in IdTokens :
                       ( /\ idToken.valid
                         /\ idToken.email /= NoEmail
                         /\ idToken.sub = users[i].google_id )
                       => /\ (googleSignIn(idToken).res.ok)'
                          /\ (googleSignIn(idToken).res.user.id)' = i ]_vars

-----------------------------------------------------------------------------
(* C26: changePassword for a user id no user record has fails with         *)
(* NotFound ('User not found.') and changes neither table.                 *)
C26_UnknownUserNotFound ==
    [][ ( last'.op = "changePassword" /\ last'.arg.userId \notin DOMAIN users )
        => /\ last'.res = UserNotFound
           /\ users' = users
           /\ refresh_tokens' = refresh_tokens ]_vars

-----------------------------------------------------------------------------
(* C27: a successful changePassword changes the password hash of its user  *)
(* and nothing else: no other column, no other user, no refresh-token      *)
(* record, so that every token that refreshed before it refreshes after.   *)
C27_ChangePasswordKeepsTokens ==
    [][ ( last'.op = "changePassword" /\ last'.res.ok )
        => /\ refresh_tokens' = refresh_tokens
           /\ \A u \in DOMAIN users :
                 u = last'.arg.userId
                 => users' = [users EXCEPT
                                 ![u].password_hash = <<"$argon2id", last'.arg.newPassword>>]
           /\ \A t \in DOMAIN cookies :
                 refreshAccessToken(t).res.ok => (refreshAccessToken(t).res.ok)' ]_vars

(* a user who held a refreshing token has changed password *)
C27_Witness ==
    /\ last.op = "changePassword"
    /\ last.res.ok
    /\ \E t \in DOMAIN cookies :
          /\ cookies[t] = last.arg.userId
          /\ refreshAccessToken(t).res.ok
    /\ users[last.arg.userId].password_hash = <<"$argon2id", last.arg.currentPassword>>

-----------------------------------------------------------------------------
(* C28: a call of register, login, googleSignIn, refreshAccessToken or     *)
(* changePassword that fails (an account that exists, credentials that do  *)
(* not verify, an assertion that is invalid or has no email, a token that  *)
(* is missing, unknown, revoked or expired, a wrong current password)      *)
(* leaves the users table and the refresh_tokens table as they were: the   *)
(* statement it fails at writes nothing, and a call that has written (a    *)
(* googleSignIn past its users write) does not fail.                       *)
C28_FailureChangesNothing ==
    [][ /\ ( /\ last'.op \in {"register", "login", "googleSignIn", "refresh",
                               "changePassword"}
             /\ ~last'.res.ok )
           => /\ users' = users
              /\ refresh_tokens' = refresh_tokens
        /\ \A r \in Ran("googleSignIn", "createRefreshToken") : last'.res.ok ]_vars

(* a refresh was refused as expired while another record was active and a  *)
(* user had a password                                                     *)
C28_Witness ==
    /\ last.op = "refresh"
    /\ last.res = TokenExpired
    /\ \E rt \in refresh_tokens : ~rt.is_revoked /\ ~(rt.expires_at < now)
    /\ \E i \in DOMAIN users : users[i].password_hash /= NoHash

-----------------------------------------------------------------------------
(* C29: a refresh token stays bound to the user it was issued to.  Every   *)
(* successful refresh of a token that a login or a googleSignIn returned   *)
(* to a user yields a user view and access-token claims with that user's   *)
(* id and email, whatever logins, logouts and account links ran since.     *)
C29_TokenBoundToUser ==
    ( last.op = "refresh" /\ last.res.ok )
    => /\ last.arg.token \in DOMAIN cookies
       /\ last.res.user.id = cookies[last.arg.token]
       /\ last.res.accessToken.userId = cookies[last.arg.token]
       /\ last.res.user.email = users[cookies[last.arg.token]].email
       /\ last.res.accessToken.email = users[cookies[last.arg.token]].email

(* the first token has refreshed after a second sign-in, its owner's       *)
(* account linked to a subject id                                          *)
C29_Witness ==
    /\ last.op = "refresh"
    /\ last.res.ok
    /\ last.arg.token = 1
    /\ Cardinality(DOMAIN cookies) = 2
    /\ users[cookies[1]].password_hash /= NoHash
    /\ users[cookies[1]].google_id /= NULL

-----------------------------------------------------------------------------
(* C30: after a successful changePassword(userId, old, new) with old a     *)
(* password other than new, a login of that user with new succeeds and a   *)
(* login with old fails with InvalidCredentials.                           *)
C30_LoginFollowsNewPassword ==
    [][ ( /\ last'.op = "changePassword"
          /\ last'.res.ok
          /\ last'.arg.currentPassword \in Passwords
          /\ last'.arg.currentPassword /= last'.arg.newPassword )
        => \A u \in DOMAIN users, old \in Passwords, new \in Passwords :
              ( /\ u = last'.arg.userId
                /\ old = last'.arg.currentPassword
                /\ new = last'.arg.newPassword )
              => /\ (login([email |-> users[u].email, password |-> new]).res.ok)'
                 /\ (login([email |-> users[u].email, password |-> new]).res.user.id)' = u
                 /\ (login([email |-> users[u].email, password |-> old]).res)'
                       = InvalidCredentials ]_vars

(* a user who registered with a password has changed it to another one *)
C30_Witness ==
    /\ last.op = "changePassword"
    /\ last.res.ok
    /\ last.arg.currentPassword \in Passwords
    /\ last.arg.currentPassword /= last.arg.newPassword
    /\ users[last.arg.userId].google_id = NULL
    /\ users[last.arg.userId].password_hash = <<"$argon2id", last.arg.newPassword>>

=============================================================================
